---- MODULE Spec2Model ----
(***************************************************************************)
(* clf2tab: Apache Common / Combined Log Format to tab-separated records.  *)
(* A model of src/clf2tab.cpp.  Strings are sequences of one-character     *)
(* strings; the program counter pc walks main's loop and scanCLF's loop    *)
(* one character at a time.                                                *)
(***************************************************************************)
EXTENDS Integers, Sequences, FiniteSets, TLC

VARIABLES
  skip_validation,  \* the global flag read by IF_VALID
  timezone,         \* the host's <time.h> timezone: seconds west of UTC
  input,            \* the lines still to be read from cin
  line,             \* main's line, scanCLF's argument
  it,               \* scanCLF's iterator, as a 1-based index into line
  state,            \* scanCLF's state
  token,            \* scanCLF's token
  tokens,           \* scanCLF's tokens
  kinds,            \* history: the state each entry of tokens was pushed in
  pc,               \* "main", "scan", "catch" or "exit"
  thrown,           \* the const char* in flight between throw and catch
  out,              \* what was written to cout: a sequence of lines
  err,              \* what was written to cerr: a sequence of lines
  nread,            \* how many lines getline has delivered
  arg,              \* the argument of a function applied on its own
  res               \* its result

vars == <<skip_validation, timezone, input, line, it, state, token, tokens,
          kinds, pc, thrown, out, err, nread, arg, res>>

(***************************************************************************)
(* Characters.                                                             *)
(***************************************************************************)
TAB == "\t"
NUL == "NUL"    \* the terminating '\0' of c_str(), also operator[](size())
QUOTE == "\""
BACKSLASH == "\\"

DigitChars == <<"0", "1", "2", "3", "4", "5", "6", "7", "8", "9">>
UpperChars == <<"A", "B", "C", "D", "E", "F", "G", "H", "I", "J", "K", "L", "M",
                "N", "O", "P", "Q", "R", "S", "T", "U", "V", "W", "X", "Y", "Z">>
LowerChars == <<"a", "b", "c", "d", "e", "f", "g", "h", "i", "j", "k", "l", "m",
                "n", "o", "p", "q", "r", "s", "t", "u", "v", "w", "x", "y", "z">>

Range(s) == {s[i] : i \in DOMAIN s}

isdigit(c) == c \in Range(DigitChars)
isalpha(c) == c \in Range(UpperChars) \cup Range(LowerChars)
isalnum(c) == isalpha(c) \/ isdigit(c)
isspace(c) == c \in {" ", TAB}

tolower(c) ==
  IF c \in Range(UpperChars)
  THEN LowerChars[CHOOSE i \in DOMAIN UpperChars : UpperChars[i] = c]
  ELSE c

\* c - '0' for the characters the model reads that way (ASCII codes)
Ord(c) ==
  IF isdigit(c) THEN 48 + (CHOOSE i \in DOMAIN DigitChars : DigitChars[i] = c) - 1
  ELSE IF c \in Range(UpperChars)
       THEN 65 + (CHOOSE i \in DOMAIN UpperChars : UpperChars[i] = c) - 1
  ELSE IF c \in Range(LowerChars)
       THEN 97 + (CHOOSE i \in DOMAIN LowerChars : LowerChars[i] = c) - 1
  ELSE CASE c = NUL -> 0
         [] c = TAB -> 9
         [] c = " " -> 32
         [] c = QUOTE -> 34
         [] c = "+" -> 43
         [] c = "," -> 44
         [] c = "-" -> 45
         [] c = "." -> 46
         [] c = "/" -> 47
         [] c = ":" -> 58
         [] c = "@" -> 64
         [] c = "[" -> 91
         [] c = BACKSLASH -> 92
         [] c = "]" -> 93
         [] c = "_" -> 95
         [] OTHER -> 63

\* str[i] for a 0-based i: the character, '\0' at i = size(), and past that
\* whatever the buffer holds (g)
CharAt(str, i, g) ==
  IF i < Len(str) THEN str[i + 1] ELSE IF i = Len(str) THEN NUL ELSE g

(***************************************************************************)
(* The field validators.                                                   *)
(***************************************************************************)
is_IP(str) ==
  IF CharAt(str, 0, NUL) = "-" THEN TRUE
  ELSE IF \E i \in DOMAIN str : ~(isdigit(str[i]) \/ str[i] = ".") THEN FALSE
  ELSE LET dots == Cardinality({i \in DOMAIN str : str[i] = "."})
           len == Len(str)
       IN  dots = 3 /\ len <= 15

is_numeric(str) ==
  \A i \in DOMAIN str : isdigit(str[i]) \/ str[i] = "-"

is_user(str) ==
  LET head == CharAt(str, 0, NUL)
  IN  IF ~(isalpha(head) \/ head = "_" \/ (head = "-" /\ CharAt(str, 1, NUL) = NUL))
      THEN FALSE
      ELSE \A i \in DOMAIN str :
             i > 1 => \/ isalnum(str[i])
                      \/ str[i] \in {"_", "-", "@", "."}

(***************************************************************************)
(* logtimeToUnix.  strptime, mktime and operator<< are the C library's;    *)
(* they are modelled by what glibc does for the format the code passes.    *)
(***************************************************************************)
month_name ==
  << <<"j","a","n","u","a","r","y">>, <<"f","e","b","r","u","a","r","y">>,
     <<"m","a","r","c","h">>, <<"a","p","r","i","l">>, <<"m","a","y">>,
     <<"j","u","n","e">>, <<"j","u","l","y">>, <<"a","u","g","u","s","t">>,
     <<"s","e","p","t","e","m","b","e","r">>, <<"o","c","t","o","b","e","r">>,
     <<"n","o","v","e","m","b","e","r">>, <<"d","e","c","e","m","b","e","r">> >>

ab_month_name == [m \in 1..12 |-> SubSeq(month_name[m], 1, 3)]

\* strncasecmp(name, rp, strlen(name)) == 0, rp being s from position p
match_string(name, s, p) ==
  /\ p + Len(name) - 1 <= Len(s)
  /\ \A i \in 1..Len(name) : tolower(s[p + i - 1]) = name[i]

RECURSIVE skip_space(_, _)
skip_space(s, p) ==
  IF p <= Len(s) /\ isspace(s[p]) THEN skip_space(s, p + 1) ELSE p

RECURSIVE number_loop(_, _, _, _, _)
number_loop(s, p, val, n, to) ==
  LET v == val * 10 + (Ord(s[p]) - 48)
  IN  IF n - 1 > 0 /\ v * 10 <= to /\ p + 1 <= Len(s) /\ isdigit(s[p + 1])
      THEN number_loop(s, p + 1, v, n - 1, to)
      ELSE [val |-> v, pos |-> p + 1]

\* glibc's get_number(from, to, n): optional white space, then up to n digits
get_number(s, p, from, to, n) ==
  LET q == skip_space(s, p)
  IN  IF q > Len(s) \/ ~isdigit(s[q]) THEN [ok |-> FALSE, val |-> 0, pos |-> q]
      ELSE LET r == number_loop(s, q, 0, n, to)
           IN  [ok |-> r.val >= from /\ r.val <= to, val |-> r.val, pos |-> r.pos]

match_char(s, p, c) == p <= Len(s) /\ s[p] = c

\* %b: the first month whose full or abbreviated name is a prefix, any case
get_month(s, p) ==
  LET hits == {m \in 1..12 : \/ match_string(month_name[m], s, p)
                             \/ match_string(ab_month_name[m], s, p)}
  IN  IF hits = {} THEN [ok |-> FALSE, val |-> 0, pos |-> p]
      ELSE LET m == CHOOSE x \in hits : \A y \in hits : x <= y
           IN  [ok |-> TRUE, val |-> m - 1,
                pos |-> p + (IF match_string(month_name[m], s, p)
                             THEN Len(month_name[m]) ELSE 3)]

\* strptime(logtime, "%d/%b/%Y:%H:%M:%S %Z", &tm): ok is "did not return NULL".
\* The blank of the format takes any white space, none included, and glibc's
\* %Z takes whatever follows up to the next blank, nothing included: what
\* comes after the seconds never makes strptime fail.
strptime(s) ==
  LET d  == get_number(s, 1, 1, 31, 2)
      b  == get_month(s, d.pos + 1)
      y  == get_number(s, b.pos + 1, 0, 9999, 4)
      h  == get_number(s, y.pos + 1, 0, 23, 2)
      mi == get_number(s, h.pos + 1, 0, 59, 2)
      se == get_number(s, mi.pos + 1, 0, 61, 2)
  IN  IF ~d.ok \/ ~match_char(s, d.pos, "/") THEN [ok |-> FALSE]
      ELSE IF ~b.ok \/ ~match_char(s, b.pos, "/") THEN [ok |-> FALSE]
      ELSE IF ~y.ok \/ ~match_char(s, y.pos, ":") THEN [ok |-> FALSE]
      ELSE IF ~h.ok \/ ~match_char(s, h.pos, ":") THEN [ok |-> FALSE]
      ELSE IF ~mi.ok \/ ~match_char(s, mi.pos, ":") THEN [ok |-> FALSE]
      ELSE IF ~se.ok THEN [ok |-> FALSE]
      ELSE [ok |-> TRUE, tm_mday |-> d.val, tm_mon |-> b.val,
            tm_year |-> y.val - 1900, tm_hour |-> h.val, tm_min |-> mi.val,
            tm_sec |-> se.val]

\* days before the first of each month in a common year
mon_yday == <<0, 31, 59, 90, 120, 151, 181, 212, 243, 273, 304, 334>>

is_leap(y) == (y % 4 = 0 /\ y % 100 # 0) \/ y % 400 = 0

\* leap days from 1 January 1970 to 1 January of year y
leaps_thru(y) ==
  ((y - 1) \div 4 - (y - 1) \div 100 + (y - 1) \div 400) - 477

\* the seconds from the epoch to the calendar fields of tm read as UTC
timegm(tm) ==
  LET y    == tm.tm_year + 1900
      days == 365 * (y - 1970) + leaps_thru(y) + mon_yday[tm.tm_mon + 1]
              + (IF is_leap(y) /\ tm.tm_mon >= 2 THEN 1 ELSE 0)
              + (tm.tm_mday - 1)
  IN  ((days * 24 + tm.tm_hour) * 60 + tm.tm_min) * 60 + tm.tm_sec

\* mktime(&tm) with tm_isdst = 0: the fields are local standard time
mktime(tm, tz) == timegm(tm) + tz

RECURSIVE digits(_)
digits(n) ==
  IF n < 10 THEN <<DigitChars[n + 1]>>
  ELSE Append(digits(n \div 10), DigitChars[(n % 10) + 1])

\* stream << t; stream >> retval
to_string(t) == IF t < 0 THEN <<"-">> \o digits(-t) ELSE digits(t)

\* tz is the host's timezone; g is what a read past the end of logtime finds
logtimeToUnix(logtime, tz, g) ==
  LET tm == strptime(logtime)
  IN  IF ~tm.ok THEN <<"-">>
      ELSE
        LET hours == 10 * (Ord(CharAt(logtime, 22, g)) - 48)
                     + Ord(CharAt(logtime, 23, g)) - 48
            mins  == 10 * (Ord(CharAt(logtime, 24, g)) - 48)
                     + Ord(CharAt(logtime, 25, g)) - 48
            off   == 60 * 60 * hours + 60 * mins
            off_secs == IF CharAt(logtime, 21, g) = "-" THEN off * (-1) ELSE off
            t     == mktime(tm, tz)
        IN  IF t = -1 THEN <<"-">>
            ELSE to_string((t - tz) + off_secs)

(***************************************************************************)
(* enum State and validate.                                                *)
(***************************************************************************)
IP == 0
CLIENT == 1
USER == 2
TIME == 3
URL_METHOD == 4
URL_PATH == 5
URL_PROTOCOL == 6
CODE == 7
CONTENT == 8
REFERER == 9
AGENT == 10

NoThrow == ""

\* the flag left out of the macro
IF_VALID_Unskippable(X) == X

IF_VALID(X) == skip_validation \/ X

\* the comparison of the path's first character inverted
begins_with_slash_Inverted(tok) == CharAt(tok, 0, NUL) # "/"

\* token[0] == '/'
begins_with_slash(tok) == CharAt(tok, 0, NUL) = "/"

\* the break of case CONTENT left out: control falls into case REFERER and
\* the state is set a second time
validate_MissingBreak(st, tok) ==
  LET go(cond, next, msg) ==
        IF cond THEN [state |-> next, thrown |-> NoThrow]
        ELSE [state |-> st, thrown |-> msg]
  IN  CASE st = IP -> go(IF_VALID(is_IP(tok)), CLIENT, "IP is invalid.")
        [] st = CLIENT ->
             go(IF_VALID(tok = <<"-">>), USER, "Client identity unsupported.")
        [] st = USER -> go(IF_VALID(is_user(tok)), TIME, "USER is invalid.")
        [] st = TIME ->
             go(IF_VALID(is_numeric(tok)), URL_METHOD, "TIME is not numeric.")
        [] st = URL_METHOD -> go(TRUE, URL_PATH, NoThrow)
        [] st = URL_PATH ->
             go(IF_VALID(begins_with_slash(tok)), URL_PROTOCOL,
                "PATH does not begin with forward slash.")
        [] st = URL_PROTOCOL -> go(TRUE, CODE, NoThrow)
        [] st = CODE ->
             go(IF_VALID(is_numeric(tok)), CONTENT, "CODE is not numeric.")
        [] st = CONTENT ->
             go(IF_VALID(is_numeric(tok)), AGENT, "CONTENT is not numeric.")
        [] st = REFERER -> go(TRUE, AGENT, NoThrow)
        [] st = AGENT -> go(TRUE, AGENT, NoThrow)

\* validate(state, token): the state it leaves and what it throws, if anything
validate(st, tok) ==
  LET go(cond, next, msg) ==
        IF cond THEN [state |-> next, thrown |-> NoThrow]
        ELSE [state |-> st, thrown |-> msg]
  IN  CASE st = IP -> go(IF_VALID(is_IP(tok)), CLIENT, "IP is invalid.")
        [] st = CLIENT ->
             go(IF_VALID(tok = <<"-">>), USER, "Client identity unsupported.")
        [] st = USER -> go(IF_VALID(is_user(tok)), TIME, "USER is invalid.")
        [] st = TIME ->
             go(IF_VALID(is_numeric(tok)), URL_METHOD, "TIME is not numeric.")
        [] st = URL_METHOD -> go(TRUE, URL_PATH, NoThrow)
        [] st = URL_PATH ->
             go(IF_VALID(begins_with_slash(tok)), URL_PROTOCOL,
                "PATH does not begin with forward slash.")
        [] st = URL_PROTOCOL -> go(TRUE, CODE, NoThrow)
        [] st = CODE ->
             go(IF_VALID(is_numeric(tok)), CONTENT, "CODE is not numeric.")
        [] st = CONTENT ->
             go(IF_VALID(is_numeric(tok)), REFERER, "CONTENT is not numeric.")
        [] st = REFERER -> go(TRUE, AGENT, NoThrow)
        [] st = AGENT -> go(TRUE, AGENT, NoThrow)

(***************************************************************************)
(* scanCLF: the body of its loop for one character, per group of states.   *)
(* Each takes the locals and the character c and gives the locals after    *)
(* the iteration, or what was thrown out of it.                            *)
(***************************************************************************)
Locals(st, tok, toks) ==
  [state |-> st, token |-> tok, tokens |-> toks, thrown |-> NoThrow]

Thrown(st, tok, toks, msg) ==
  [state |-> st, token |-> tok, tokens |-> toks, thrown |-> msg]

\* validate(state, token); tokens.push_back(pushed); token.clear();
commit(st, tok, toks, pushed) ==
  LET v == validate(st, pushed)
  IN  IF v.thrown # NoThrow THEN Thrown(st, tok, toks, v.thrown)
      ELSE Locals(v.state, <<>>, Append(toks, pushed))

\* the commit at the end of the line left out
scan_simple_NoEndCommit(st, tok, toks, c, last) ==
  IF c # " " /\ c # "," THEN Locals(st, Append(tok, c), toks)
  ELSE IF c = "," /\ st = IP THEN Locals(st, <<>>, Append(toks, tok))
  ELSE IF tok # <<>> THEN commit(st, tok, toks, tok)
  ELSE Locals(st, tok, toks)

\* the branch for further addresses left out: a comma ends the address field
scan_simple_CommaCommits(st, tok, toks, c, last) ==
  LET a == IF c # " " /\ c # "," THEN Locals(st, Append(tok, c), toks)
           ELSE IF tok # <<>> THEN commit(st, tok, toks, tok)
           ELSE Locals(st, tok, toks)
  IN  IF a.thrown = NoThrow /\ last /\ a.token # <<>>
      THEN Locals(a.state, a.token, Append(a.tokens, a.token))
      ELSE a

\* case IP, CLIENT, USER, CODE, CONTENT; last is it+1 == line.end()
scan_simple(st, tok, toks, c, last) ==
  LET a == IF c # " " /\ c # "," THEN Locals(st, Append(tok, c), toks)
           ELSE IF c = "," /\ st = IP THEN Locals(st, <<>>, Append(toks, tok))
           ELSE IF tok # <<>> THEN commit(st, tok, toks, tok)
           ELSE Locals(st, tok, toks)
  IN  IF a.thrown = NoThrow /\ last /\ a.token # <<>>
      THEN Locals(a.state, a.token, Append(a.tokens, a.token))
      ELSE a

\* case TIME
scan_time(st, tok, toks, c, tz, g) ==
  IF c # "[" /\ c # "]" THEN Locals(st, Append(tok, c), toks)
  ELSE IF c = "]" THEN commit(st, tok, toks, logtimeToUnix(tok, tz, g))
  ELSE Locals(st, tok, toks)

\* case URL_METHOD, URL_PATH, URL_PROTOCOL; prev is *(it-1)
scan_url(st, tok, toks, c, prev) ==
  IF c # QUOTE \/ prev = BACKSLASH
  THEN IF c # " " THEN Locals(st, Append(tok, c), toks)
       ELSE IF tok # <<>> THEN commit(st, tok, toks, tok)
       ELSE Locals(st, tok, toks)
  ELSE IF tok # <<>> THEN commit(st, tok, toks, tok)
  ELSE Locals(st, tok, toks)

\* the test for an escaped quote left out: every quote ends the value
scan_quoted_NoEscape(st, tok, toks, c, prev) ==
  IF c # QUOTE /\ (c # " " \/ tok # <<>>)
  THEN Locals(st, Append(tok, c), toks)
  ELSE IF tok # <<>> THEN commit(st, tok, toks, tok)
  ELSE Locals(st, tok, toks)

\* case REFERER, AGENT
scan_quoted(st, tok, toks, c, prev) ==
  IF (c # QUOTE \/ prev = BACKSLASH) /\ (c # " " \/ tok # <<>>)
  THEN Locals(st, Append(tok, c), toks)
  ELSE IF tok # <<>> THEN commit(st, tok, toks, tok)
  ELSE Locals(st, tok, toks)

RECURSIVE join(_)
\* the loop at the end of scanCLF: the tokens with a tab between them
join(toks) ==
  IF toks = <<>> THEN <<>>
  ELSE IF Len(toks) = 1 THEN toks[1]
  ELSE toks[1] \o <<TAB>> \o join(Tail(toks))

(***************************************************************************)
(* The inputs.  A line is the well-formed Combined line with at most one   *)
(* field replaced, cut after any character; a stream is one such line, or  *)
(* up to MaxStream lines of a small set.                                   *)
(***************************************************************************)
MaxStream == 2   \* lines in a stream of several lines
MaxChain == 2    \* addresses in a chain of addresses

Sp == <<" ">>

GoodAddr == <<"1", ".", "2", ".", "3", ".", "4">>
GoodClient == <<"-">>
GoodUser == <<"b", "o", "b">>
GoodTime == <<"[", "0", "4", "/", "A", "p", "r", "/", "2", "0", "1", "2", ":", "1", "0", ":", "3", "7", ":", "2", "9", " ", "-", "0", "5", "0", "0", "]">>
GoodRequest == <<QUOTE, "G", "E", "T", " ", "/", " ", "H", QUOTE>>
GoodCode == <<"2", "0", "0">>
GoodLength == <<"5">>
\* a referer, a user-agent with a blank and escaped quotes, one more field
GoodTail == <<" ", QUOTE, "r", QUOTE, " ", QUOTE, "M", " ", BACKSLASH, QUOTE, "t", BACKSLASH, QUOTE, QUOTE, " ", QUOTE, "e", QUOTE>>

AddrEntries == {GoodAddr, <<"z">>}
AddrSeps == {<<",">>, <<",", " ">>}

RECURSIVE AddrChains(_)
AddrChains(n) ==
  IF n = 1 THEN AddrEntries
  ELSE AddrChains(n - 1) \cup
       {c \o p \o a : c \in AddrChains(n - 1), p \in AddrSeps, a \in AddrEntries}

AddrAlts ==
  AddrChains(MaxChain) \cup
  { <<"-">>, <<"-", "z">>, <<"1", ".", "2", ".", "3">>, <<"1", "1", "1", ".", "2", "2", "2", ".", "3", "3", "3", ".", "4", "4", "4", "4">>, <<"1", ".", "2", ".", "3", ".", "4", ",", ",">>,
    <<"1", ".", "2", ".", "3", ".", "4", ",", " ", "5", ".", "6", ".", "7", ".", "8">> }

ClientAlts == { <<"x">>, <<"-", ",", "x">> }

UserAlts == { <<"-">>, <<"_", "a", ".", "b", "@", "c", "-", "1">>, <<"9", "x">> }

TimeAlts ==
  { <<"[", "0", "4", "/", "A", "p", "r", "/", "2", "0", "1", "2", ":", "1", "5", ":", "3", "7", ":", "2", "9", " ", "+", "0", "0", "0", "0", "]">>,
    <<"[", "x", "]">>,
    <<"[", "4", "/", "A", "p", "r", "/", "2", "0", "1", "2", ":", "1", "0", ":", "3", "7", ":", "2", "9", " ", "-", "0", "5", "0", "0", "]">>,
    <<"[", "0", "4", "/", "A", "p", "r", "/", "2", "0", "1", "2", ":", "1", "0", ":", "3", "7", ":", "2", "9", "]">>,
    <<"x", "[", "0", "4", "/", "A", "p", "r", "/", "2", "0", "1", "2", ":", "1", "0", ":", "3", "7", ":", "2", "9", " ", "-", "0", "5", "0", "0", "]">>,
    <<"[", "0", "4", "/", "a", "p", "r", "i", "l", "/", "2", "0", "1", "2", ":", "1", "0", ":", "3", "7", ":", "2", "9", " ", "+", "0", "1", "3", "0", "]">>,
    <<"[", "3", "1", "/", "D", "e", "c", "/", "1", "9", "6", "9", ":", "2", "3", ":", "5", "9", ":", "5", "9", " ", "+", "0", "0", "0", "0", "]">>,
    <<"[", "]">> }

RequestAlts ==
  { <<QUOTE, "G", "E", "T", " ", "x", " ", "H", QUOTE>>,
    <<QUOTE, "G", "E", "T", " ", "/", QUOTE>>,
    <<QUOTE, "G", "E", "T", " ", "/", "a", BACKSLASH, QUOTE, "b", " ", "H", QUOTE>>,
    <<"G", "E", "T", " ", "/", " ", "H">>,
    <<QUOTE, "G", "E", "T", " ", " ", "/", " ", " ", "H", QUOTE>>,
    <<QUOTE, "G", "E", "T", " ", "/", "a", TAB, "b", " ", "H", QUOTE>> }

CodeAlts == { <<"2", "x">>, <<"-">>, <<"2", ",", "0">> }

LengthAlts == { <<"-">>, <<"a", "b">>, <<"5", ",", "x">> }

Compose(a, c, u, t, r, s, l) ==
  a \o Sp \o c \o Sp \o u \o Sp \o t \o Sp \o r \o Sp \o s \o Sp \o l \o GoodTail

\* the well-formed line
GoodLine ==
  Compose(GoodAddr, GoodClient, GoodUser, GoodTime, GoodRequest, GoodCode, GoodLength)

FullLines ==
  {Compose(a, GoodClient, GoodUser, GoodTime, GoodRequest, GoodCode, GoodLength) :
     a \in AddrAlts \cup {GoodAddr}}
  \cup {Compose(GoodAddr, c, GoodUser, GoodTime, GoodRequest, GoodCode, GoodLength) :
     c \in ClientAlts}
  \cup {Compose(GoodAddr, GoodClient, u, GoodTime, GoodRequest, GoodCode, GoodLength) :
     u \in UserAlts}
  \cup {Compose(GoodAddr, GoodClient, GoodUser, t, GoodRequest, GoodCode, GoodLength) :
     t \in TimeAlts}
  \cup {Compose(GoodAddr, GoodClient, GoodUser, GoodTime, r, GoodCode, GoodLength) :
     r \in RequestAlts}
  \cup {Compose(GoodAddr, GoodClient, GoodUser, GoodTime, GoodRequest, s, GoodLength) :
     s \in CodeAlts}
  \cup {Compose(GoodAddr, GoodClient, GoodUser, GoodTime, GoodRequest, GoodCode, l) :
     l \in LengthAlts}

Prefixes(l) == {SubSeq(l, 1, n) : n \in 0..Len(l)}

Lines == UNION {Prefixes(l) : l \in FullLines}

\* the lines of the streams of several lines: one with all its fields (its
\* timestamp the shortest), a short accepted one, two rejected ones, the
\* empty one
StreamLines ==
  { Compose(GoodAddr, GoodClient, GoodUser, <<"[", "]">>, GoodRequest, GoodCode, GoodLength),
    GoodAddr \o Sp \o GoodClient, GoodAddr \o Sp \o <<"x">> \o Sp, <<"z">> \o Sp, <<>> }

RECURSIVE StreamsOf(_)
StreamsOf(n) ==
  IF n = 0 THEN {<<>>}
  ELSE StreamsOf(n - 1) \cup
       {Append(st, l) : st \in StreamsOf(n - 1), l \in StreamLines}

Streams == {<<l>> : l \in Lines} \cup StreamsOf(MaxStream)

Timezones == {0, 18000}

\* what a read outside the string may find
Garbage == {"0", "x"}

(***************************************************************************)
(* main and scanCLF.                                                       *)
(***************************************************************************)
Init ==
  /\ skip_validation \in BOOLEAN   \* main sets false; true is the other build
  /\ timezone \in Timezones
  /\ input \in Streams
  /\ line = <<>>
  /\ it = 1
  /\ state = IP
  /\ token = <<>>
  /\ tokens = <<>>
  /\ kinds = <<>>
  /\ pc = "main"
  /\ thrown = NoThrow
  /\ out = <<>>
  /\ err = <<>>
  /\ nread = 0
  /\ arg = <<>>
  /\ res = <<>>

\* scanCLF entered with its state in the request instead of IP
GetLine_StartsInRequest ==
  /\ pc = "main"
  /\ input # <<>>
  /\ line' = Head(input)
  /\ input' = Tail(input)
  /\ nread' = nread + 1
  /\ tokens' = <<>>
  /\ kinds' = <<>>
  /\ token' = <<>>
  /\ state' = URL_METHOD
  /\ it' = 1
  /\ pc' = "scan"
  /\ UNCHANGED <<skip_validation, timezone, thrown, out, err, arg, res>>

\* while (std::getline(cin, line)) succeeding, and the entry of scanCLF
GetLine ==
  /\ pc = "main"
  /\ input # <<>>
  /\ line' = Head(input)
  /\ input' = Tail(input)
  /\ nread' = nread + 1
  /\ tokens' = <<>>
  /\ kinds' = <<>>
  /\ token' = <<>>
  /\ state' = IP
  /\ it' = 1
  /\ pc' = "scan"
  /\ UNCHANGED <<skip_validation, timezone, thrown, out, err, arg, res>>

\* getline failing at the end of the input: return 0
EndOfInput ==
  /\ pc = "main"
  /\ input = <<>>
  /\ pc' = "exit"
  /\ UNCHANGED <<skip_validation, timezone, input, line, it, state, token,
                 tokens, kinds, thrown, out, err, nread, arg, res>>

\* the end of one iteration of scanCLF's loop: ++it, or the throw leaving it
Iterate(r) ==
  /\ IF r.thrown # NoThrow
     THEN /\ pc' = "catch"
          /\ thrown' = r.thrown
          /\ UNCHANGED <<it, state, token, tokens, kinds>>
     ELSE /\ it' = it + 1
          /\ state' = r.state
          /\ token' = r.token
          /\ tokens' = r.tokens
          /\ kinds' = IF Len(r.tokens) > Len(tokens)
                      THEN Append(kinds, state) ELSE kinds
          /\ UNCHANGED <<pc, thrown>>
  /\ UNCHANGED <<skip_validation, timezone, input, line, out, err, nread, arg, res>>

\* *(it-1); before line.begin() it is outside the string
Prev(g) == IF it > 1 THEN line[it - 1] ELSE g

ScanSimple ==
  /\ pc = "scan"
  /\ it <= Len(line)
  /\ state \in {IP, CLIENT, USER, CODE, CONTENT}
  /\ Iterate(scan_simple(state, token, tokens, line[it], it + 1 = Len(line) + 1))

ScanTime ==
  /\ pc = "scan"
  /\ it <= Len(line)
  /\ state = TIME
  /\ \E g \in Garbage :
       Iterate(scan_time(state, token, tokens, line[it], timezone, g))

ScanUrl ==
  /\ pc = "scan"
  /\ it <= Len(line)
  /\ state \in {URL_METHOD, URL_PATH, URL_PROTOCOL}
  /\ \E g \in Garbage :
       Iterate(scan_url(state, token, tokens, line[it], Prev(g)))

ScanQuoted ==
  /\ pc = "scan"
  /\ it <= Len(line)
  /\ state \in {REFERER, AGENT}
  /\ \E g \in Garbage :
       Iterate(scan_quoted(state, token, tokens, line[it], Prev(g)))

\* the loop of scanCLF is over: the record goes to cout
Emit ==
  /\ pc = "scan"
  /\ it > Len(line)
  /\ out' = Append(out, join(tokens))
  /\ pc' = "main"
  /\ UNCHANGED <<skip_validation, timezone, input, line, it, state, token,
                 tokens, kinds, thrown, err, nread, arg, res>>

\* catch (const char* e): the pieces written to cerr
Diagnostic(e, l) == <<"Error \"", e, "\" on line: ", l>>

\* the diagnostic written to cout instead of cerr
Catch_ToCout ==
  /\ pc = "catch"
  /\ out' = Append(out, Diagnostic(thrown, line))
  /\ thrown' = NoThrow
  /\ pc' = "main"
  /\ UNCHANGED <<skip_validation, timezone, input, line, it, state, token,
                 tokens, kinds, err, nread, arg, res>>

\* the handler ending the program instead of returning to the loop
Catch_Exits ==
  /\ pc = "catch"
  /\ err' = Append(err, Diagnostic(thrown, line))
  /\ thrown' = NoThrow
  /\ pc' = "exit"
  /\ UNCHANGED <<skip_validation, timezone, input, line, it, state, token,
                 tokens, kinds, out, nread, arg, res>>

Catch ==
  /\ pc = "catch"
  /\ err' = Append(err, Diagnostic(thrown, line))
  /\ thrown' = NoThrow
  /\ pc' = "main"
  /\ UNCHANGED <<skip_validation, timezone, input, line, it, state, token,
                 tokens, kinds, out, nread, arg, res>>

Next ==
  \/ GetLine
  \/ EndOfInput
  \/ ScanSimple
  \/ ScanTime
  \/ ScanUrl
  \/ ScanQuoted
  \/ Emit
  \/ Catch

Spec == Init /\ [][Next]_vars

(***************************************************************************)
(* is_IP and logtimeToUnix applied on their own, to arguments of bounded   *)
(* sets.                                                                   *)
(***************************************************************************)
MaxOctet == 4    \* most digits between two dots of an argument of is_IP
MaxDots == 4     \* dots of an argument of is_IP

Ones(k) == [i \in 1..k |-> "1"]

\* how many digits stand between two dots: none, one, or the most
OctetLens == {0, 1, MaxOctet}

RECURSIVE Dotted(_)
Dotted(n) ==
  IF n = 0 THEN {Ones(k) : k \in OctetLens}
  ELSE {d \o <<".">> \o Ones(k) : d \in Dotted(n - 1), k \in OctetLens}

IPHeads == {<<>>, <<"-">>, <<"a">>}

IPArgs == {h \o d : h \in IPHeads, d \in UNION {Dotted(n) : n \in 0..MaxDots}}

(***************************************************************************)
(* The program on streams of several lines, run to its end: it is          *)
(* sequential, so a step that can be taken is taken.                       *)
(***************************************************************************)
InitStream == Init /\ input \in StreamsOf(MaxStream)

SpecStream == InitStream /\ [][Next]_vars /\ WF_vars(Next)

NoProgram ==
  /\ skip_validation = FALSE
  /\ input = <<>>
  /\ line = <<>>
  /\ it = 1
  /\ state = IP
  /\ token = <<>>
  /\ tokens = <<>>
  /\ kinds = <<>>
  /\ thrown = NoThrow
  /\ out = <<>>
  /\ err = <<>>
  /\ nread = 0

InitIsIP ==
  /\ NoProgram
  /\ timezone = 0
  /\ pc = "is_IP"
  /\ arg \in IPArgs
  /\ res = <<>>

ApplyIsIP ==
  /\ pc = "is_IP"
  /\ res' = is_IP(arg)
  /\ pc' = "return"
  /\ UNCHANGED <<skip_validation, timezone, input, line, it, state, token,
                 tokens, kinds, thrown, out, err, nread, arg>>

NextIsIP == ApplyIsIP

SpecIsIP == InitIsIP /\ [][NextIsIP]_vars

\* the calendar fields and the offset a raw timestamp is written from
StampFields ==
  [mday : {4, 5}, hour : {10, 15, 23}, min : {37}, sign : {"+", "-"},
   zh : {0, 5}, zm : {0, 30}]

two(n) == <<DigitChars[(n \div 10) + 1], DigitChars[(n % 10) + 1]>>

\* DD/Apr/2012:HH:MM:29 +ZZZZ
Stamp(f) ==
  two(f.mday) \o <<"/", "A", "p", "r", "/", "2", "0", "1", "2", ":">>
  \o two(f.hour) \o <<":">> \o two(f.min) \o <<":", "2", "9", " ", f.sign>>
  \o two(f.zh) \o two(f.zm)

InitTime ==
  /\ NoProgram
  /\ timezone \in Timezones
  /\ pc = "logtimeToUnix"
  /\ arg \in StampFields \X StampFields
  /\ res = <<>>

ApplyLogtime ==
  /\ pc = "logtimeToUnix"
  /\ \E g \in Garbage :
       res' = <<logtimeToUnix(Stamp(arg[1]), timezone, g),
                logtimeToUnix(Stamp(arg[2]), timezone, g)>>
  /\ pc' = "return"
  /\ UNCHANGED <<skip_validation, timezone, input, line, it, state, token,
                 tokens, kinds, thrown, out, err, nread, arg>>

NextTime == ApplyLogtime

SpecTime == InitTime /\ [][NextTime]_vars

(***************************************************************************)
(* Properties.                                                             *)
(***************************************************************************)
Strict == ~skip_validation

\* the one line of a one-line stream has been processed to its end
Finished == pc \in {"main", "exit"} /\ nread = 1

Accepted == Len(out) = 1 /\ err = <<>>

Rejected(reason) == out = <<>> /\ err = <<Diagnostic(reason, line)>>

Reasons ==
  {"IP is invalid.", "Client identity unsupported.", "USER is invalid.",
   "TIME is not numeric.", "PATH does not begin with forward slash.",
   "CODE is not numeric.", "CONTENT is not numeric."}

\* C1: every line ends in exactly one of two outcomes, one record on the
\* primary output and no diagnostic, or one diagnostic and nothing on the
\* primary output; while a line is being processed nothing of it has been
\* written, so no partial record precedes a validation failure.
C1_OneOutcomePerLine ==
  /\ pc \in {"scan", "catch"} => Len(out) + Len(err) = nread - 1
  /\ pc \in {"main", "exit"} => Len(out) + Len(err) = nread
  /\ Finished => \/ out = <<join(tokens)>> /\ err = <<>>
                 \/ \E e \in Reasons : Rejected(e)

\* a line rejected after entries had been committed to the record
C1_Witness == Finished /\ tokens # <<>> /\ err # <<>> /\ out = <<>>

\* the instant a well-formed timestamp denotes, in minutes: its calendar
\* fields less its offset from UTC
UtcMinutes(f) ==
  ((f.mday * 24 + f.hour) * 60 + f.min)
  - (IF f.sign = "-" THEN -1 ELSE 1) * (f.zh * 60 + f.zm)

\* C2: two well-formed timestamps that denote the same instant with different
\* offsets normalize to the same epoch seconds.
C2_SameInstantSameEpoch ==
  (pc = "return" /\ UtcMinutes(arg[1]) = UtcMinutes(arg[2])) => res[1] = res[2]

\* DD/Mon/YYYY:HH:MM:SS +ZZZZ
TimestampShape(s) ==
  /\ Len(s) = 26
  /\ \A i \in {1, 2, 8, 9, 10, 11, 13, 14, 16, 17, 19, 20, 23, 24, 25, 26} :
       isdigit(s[i])
  /\ \A i \in {4, 5, 6} : isalpha(s[i])
  /\ s[3] = "/" /\ s[7] = "/"
  /\ s[12] = ":" /\ s[15] = ":" /\ s[18] = ":"
  /\ s[21] = " "
  /\ s[22] \in {"+", "-"}

\* C3: in strict mode, when the text closed by ']' does not have the shape
\* DD/Mon/YYYY:HH:MM:SS +ZZZZ, the line is rejected with "TIME is not
\* numeric.".
C3_MalformedTimeRejected ==
  [][(/\ Strict
      /\ pc = "scan" /\ state = TIME /\ it <= Len(line) /\ line[it] = "]"
      /\ ~TimestampShape(token))
     => (pc' = "catch" /\ thrown' = "TIME is not numeric.")]_vars

\* every address entry pushed so far passes is_IP
AddressesValid == \A i \in DOMAIN tokens : kinds[i] = IP => is_IP(tokens[i])

\* C4: in strict mode a line with valid addresses whose client identity is
\* not exactly "-" is rejected with "Client identity unsupported." and emits
\* no record, however the identity token ends.
C4_ForeignIdentityRejected ==
  (/\ Strict /\ Finished /\ AddressesValid
   /\ state = CLIENT /\ token # <<>> /\ token # <<"-">>)
  => Rejected("Client identity unsupported.")

\* C5: in strict mode a line whose status code or content length has a
\* character that is neither a digit nor '-' is rejected with "CODE is not
\* numeric." or "CONTENT is not numeric." and emits no record, also when the
\* line ends with that token.
C5_NonNumericRejected ==
  (/\ Strict /\ Finished
   /\ state \in {CODE, CONTENT} /\ token # <<>> /\ ~is_numeric(token))
  => Rejected(IF state = CODE THEN "CODE is not numeric."
              ELSE "CONTENT is not numeric.")

\* C6: in strict mode every address entry of an emitted record passes is_IP.
C6_EmittedAddressesValid ==
  (Strict /\ Finished /\ out # <<>>) => AddressesValid

\* the kinds of a record: addresses, the eight fields after them, then
\* optionally a referer, then optionally a user-agent
RecordShape(ks) ==
  \E k \in 1..Len(ks) :
    /\ \A i \in 1..k : ks[i] = IP
    /\ \E opt \in {<<>>, <<REFERER>>, <<REFERER, AGENT>>} :
         SubSeq(ks, k + 1, Len(ks))
           = <<CLIENT, USER, TIME, URL_METHOD, URL_PATH, URL_PROTOCOL, CODE,
               CONTENT>> \o opt

\* C7: every record written has, in this order, one or more addresses, client
\* identity, user, timestamp, method, path, protocol, status code, content
\* length, then optionally a referer and then optionally a user-agent.
C7_RecordShape ==
  (Finished /\ out # <<>> /\ tokens # <<>>) => RecordShape(kinds)

\* is_address as specified
is_address(tok) ==
  \/ tok = <<"-">>
  \/ /\ \A i \in DOMAIN tok : isdigit(tok[i]) \/ tok[i] = "."
     /\ Cardinality({i \in DOMAIN tok : tok[i] = "."}) = 3
     /\ Len(tok) <= 15

\* C8: is_IP accepts exactly "-" and the strings of digits and dots with
\* exactly three dots and at most 15 characters.
C8_IsAddressExact == pc = "return" => (res = is_address(arg))

NextState(st) == IF st = AGENT THEN AGENT ELSE st + 1

\* C9: in permissive mode nothing is rejected: no throw, no diagnostic, one
\* record per line, and validate advances the state on any token as it does
\* on a valid one.
C9_PermissiveNeverRejects ==
  skip_validation =>
    /\ pc # "catch" /\ thrown = NoThrow /\ err = <<>>
    /\ pc \in {"main", "exit"} => Len(out) = nread
    /\ pc = "scan" => validate(state, token)
                        = [state |-> NextState(state), thrown |-> NoThrow]
    /\ \A i \in DOMAIN kinds : i > 1 => kinds[i] \in {kinds[i - 1], NextState(kinds[i - 1])}

\* a non-numeric status code went through validate into an emitted record
C9_Witness ==
  /\ skip_validation /\ Finished /\ Accepted
  /\ \E i \in DOMAIN tokens :
       kinds[i] = CODE /\ ~is_numeric(tokens[i]) /\ i < Len(tokens)

\* a path token that does not start with '/'
BadPath(tok) == tok # <<>> /\ tok[1] # "/"

PathReason == "PATH does not begin with forward slash."

UrlDelimiter ==
  \/ line[it] = " "
  \/ line[it] = QUOTE /\ line[it - 1] # BACKSLASH

LeadingEnd(l) ==
  LET ends == {i \in DOMAIN l : l[i] = " " /\ (i = 1 \/ l[i - 1] # ",")}
  IN  IF ends = {} THEN 0 ELSE CHOOSE i \in ends : \A j \in ends : i <= j

RECURSIVE SplitChain(_)
\* the pieces of s between its ", " separators
SplitChain(s) ==
  LET seps == {i \in 1..(Len(s) - 1) : s[i] = "," /\ s[i + 1] = " "}
  IN  IF seps = {} THEN <<s>>
      ELSE LET i == CHOOSE x \in seps : \A y \in seps : x <= y
           IN  <<SubSeq(s, 1, i - 1)>> \o SplitChain(SubSeq(s, i + 2, Len(s)))

LeadingChain(l) == SplitChain(SubSeq(l, 1, LeadingEnd(l) - 1))

\* ch, the pieces of the address field ending at e, are valid addresses
ValidChain(e, ch) == e > 0 /\ \A j \in DOMAIN ch : is_address(ch[j])

\* l starts with valid addresses separated by ", " and followed by a blank
StartsWithChain(l) == ValidChain(LeadingEnd(l), LeadingChain(l))

\* the record and the state agree with the chain ch that ends at e
ChainInOrder(e, ch) ==
  /\ (pc = "scan" /\ it <= e) => state = IP
  /\ it > e =>
       /\ state # IP
       /\ Len(tokens) >= Len(ch)
       /\ SubSeq(tokens, 1, Len(ch)) = ch
       /\ \A j \in 1..Len(ch) : kinds[j] = IP
       /\ Len(kinds) > Len(ch) => kinds[Len(ch) + 1] = CLIENT
  /\ (Finished /\ out # <<>>) => out = <<join(tokens)>>

\* C11: for a line that starts with k valid addresses separated by ", " and
\* followed by a blank, the record begins with exactly those k addresses in
\* input order, the next entry is the client identity, and the state is
\* Address up to the blank after the last address and past it from there on.
C11_ChainInOrder ==
  LET AtChain(e, ch) == ValidChain(e, ch) => ChainInOrder(e, ch)
  IN  AtChain(LeadingEnd(line), LeadingChain(line))

\* a record that begins with two different addresses of a chain
C11_Witness ==
  /\ Finished /\ Accepted /\ StartsWithChain(line)
  /\ Len(LeadingChain(line)) = 2
  /\ LeadingChain(line)[1] # LeadingChain(line)[2]
  /\ Len(tokens) > 2 /\ kinds[3] = CLIENT

\* the scanner is about to read a character of a referer or user-agent value
QuotedStep == pc = "scan" /\ it <= Len(line) /\ state \in {REFERER, AGENT}

\* the quote at the current position is not preceded by a backslash
UnescapedQuote == line[it] = QUOTE /\ it > 1 /\ line[it - 1] # BACKSLASH

\* Mozilla/5.0 \"test\" in short: M \"t\"
ExampleAgent == <<"M", " ", BACKSLASH, QUOTE, "t", BACKSLASH, QUOTE>>

\* C12: in the referer and user-agent states a value that has started takes
\* every character up to the next unescaped quote, blanks and escaped quotes
\* (backslash and quote) included, and that quote commits it as one record
\* entry equal to the characters of the line before it; nothing else commits.
\* The value "M \"t\"" of the well-formed line is one entry of its record.
C12_QuotedValueOneEntry ==
  /\ [][QuotedStep =>
          IF UnescapedQuote
          THEN token # <<>> =>
                 /\ tokens' = Append(tokens, token)
                 /\ token = SubSeq(line, it - Len(token), it - 1)
                 /\ token' = <<>>
          ELSE /\ tokens' = tokens
               /\ token # <<>> => token' = Append(token, line[it])]_vars
  /\ [](Finished /\ line = GoodLine =>
          /\ Len(tokens) = 12
          /\ tokens[11] = ExampleAgent
          /\ kinds[11] = AGENT
          /\ out = <<join(tokens)>>)

\* the example's line is emitted with its user-agent as one entry
C12_Witness ==
  /\ Finished
  /\ Accepted
  /\ line = GoodLine
  /\ \E j \in DOMAIN tokens : kinds[j] = AGENT /\ tokens[j] = ExampleAgent

\* C13: on a finite stream the program reaches its return; the handler of a
\* rejected line goes back to the reading loop with the lines not yet read
\* untouched; every line read ends in its own record or diagnostic before
\* the next is read; the return is taken only at the end of the input, with
\* as many records and diagnostics as lines were read, every line read.
C13_RejectionNeverStops ==
  /\ <>(pc = "exit")
  /\ [][pc = "catch" => pc' = "main" /\ input' = input]_vars
  /\ [][Len(input') + nread' = Len(input) + nread]_vars
  /\ [](pc = "main" => Len(out) + Len(err) = nread)
  /\ [](pc = "exit" => input = <<>> /\ Len(out) + Len(err) = nread
                       /\ nread <= MaxStream)
  /\ [](pc = "catch" => <>(pc = "exit"))

\* a stream whose first line was rejected and whose second gave a record
C13_Witness ==
  /\ pc = "exit"
  /\ nread = 2
  /\ Len(err) = 1
  /\ Len(out) = 1
  /\ err[1][4] # line

\* the entry appended last
Last(toks) == toks[Len(toks)]

\* C14: while a line is processed the state starts at IP and every step
\* leaves it as it is or moves it to the next state of the enumeration (the
\* last state, AGENT, stays); a step that moves it appends exactly one entry
\* to the record, and validate accepted that entry in the state left.
C14_StateMonotonic ==
  /\ [](state \in IP..AGENT)
  /\ [](pc = "scan" /\ it = 1 => state = IP)
  /\ [][pc = "scan" =>
          /\ state' = state \/ state' = state + 1
          /\ state' # state =>
               /\ Len(tokens') = Len(tokens) + 1
               /\ tokens' = Append(tokens, Last(tokens'))
               /\ validate(state, Last(tokens')) =
                    [state |-> state', thrown |-> NoThrow]]_vars

\* a line taken through every state, the last entered from REFERER
C14_Witness ==
  /\ Finished
  /\ Accepted
  /\ state = AGENT
  /\ \A s \in IP..AGENT : \E j \in DOMAIN kinds : kinds[j] = s

\* C15: no entry of the record is the empty string, at any point of a line
\* and so in every emitted record: a delimiter met on an empty token appends
\* nothing.
C15_NoEmptyEntry == \A j \in DOMAIN tokens : tokens[j] # <<>>

\* C16: in the states CLIENT, USER, CODE and CONTENT a comma does not end
\* the token: the step that reads it appends nothing to the record, throws
\* nothing, leaves the state, and leaves a token that had begun non-empty.
C16_CommaOnlyInAddress ==
  [][(/\ pc = "scan"
      /\ it <= Len(line)
      /\ state \in {CLIENT, USER, CODE, CONTENT}
      /\ line[it] = ",") =>
       /\ pc' = "scan"
       /\ state' = state
       /\ tokens' = tokens
       /\ token # <<>> => token' # <<>>]_vars

\* C17: in state TIME the token holds nothing but the characters that follow
\* a '[' of the line, and holds no bracket; so what is handed to
\* logtimeToUnix at the ']' is what stands between the brackets.
C17_OnlyBetweenBrackets ==
  (state = TIME /\ token # <<>>) =>
    /\ \E j \in 1..(it - 1) :
         line[j] = "[" /\ token = SubSeq(line, j + 1, it - 1)
    /\ \A i \in DOMAIN token : token[i] \notin {"[", "]"}

SimpleStates == {IP, CLIENT, USER, CODE, CONTENT}

\* the scanner is about to read the last character of the line in one of
\* the simple states
LastSimpleStep == pc = "scan" /\ it = Len(line) /\ state \in SimpleStates

\* C18: when the last character of the line is read in a simple state and
\* is not a delimiter, the token it completes is appended to the record,
\* once and without a change of state; when it is a delimiter the step
\* appends at most the one entry the delimiter committed and no token is
\* left.  So a line accepted with a token pending in a simple state has that
\* token as the last entry of its record, and the entry before it was
\* appended by an earlier step.
C18_PendingCommittedOnce ==
  /\ [][(LastSimpleStep /\ pc' = "scan") =>
          IF line[it] \notin {" ", ","}
          THEN /\ tokens' = Append(tokens, Append(token, line[it]))
               /\ token' = Append(token, line[it])
               /\ state' = state
          ELSE /\ Len(tokens') <= Len(tokens) + 1
               /\ token' = <<>>]_vars
  /\ [][pc = "scan" /\ pc' = "main" => tokens' = tokens]_vars
  /\ []((Finished /\ out # <<>> /\ state \in SimpleStates /\ token # <<>>) =>
          /\ tokens # <<>>
          /\ Last(tokens) = token
          /\ SubSeq(line, Len(line) - Len(token) + 1, Len(line)) = token
          /\ out = <<join(tokens)>>)

\* a line that ends in its status code, which is the record's last entry
C18_Witness ==
  /\ Finished
  /\ Accepted
  /\ state = CODE
  /\ token # <<>>
  /\ Last(tokens) = token
  /\ Len(tokens) = 8

\* the states whose case reads *(it-1)
LookbackStates == {URL_METHOD, URL_PATH, URL_PROTOCOL, REFERER, AGENT}

\* C19: whenever a character is about to be read in a state whose case
\* looks at the character before it, the position is past the first
\* character of the line, so that character is one of the line: the step
\* does not depend on what lies before the line.
C19_LookbackInsideLine ==
  (pc = "scan" /\ it <= Len(line) /\ state \in LookbackStates) =>
    /\ it > 1
    /\ \A g \in Garbage : Prev(g) = line[it - 1]

\* the lookback finds the backslash of an escaped quote
C19_Witness ==
  /\ pc = "scan"
  /\ it <= Len(line)
  /\ state \in LookbackStates
  /\ line[it] = QUOTE
  /\ it > 1
  /\ line[it - 1] = BACKSLASH

\* the characters of an output line that are tabs
Tabs(s) == {i \in DOMAIN s : s[i] = TAB}

\* C20: no entry of the record contains a tab, and an emitted line of a
\* record with entries has as many tab-separated columns as the record has
\* entries.
C20_ColumnsAreEntries ==
  /\ \A j \in DOMAIN tokens : TAB \notin Range(tokens[j])
  /\ (Finished /\ out # <<>> /\ tokens # <<>>) =>
       Cardinality(Tabs(out[1])) + 1 = Len(tokens)

====
